---- MODULE Spec2Model ----
(***************************************************************************)
(* State-machine model of mcp-s3-server (src/src/s3-server/server.py):     *)
(* startup (main / init_client / load_config), the transport loop that    *)
(* receives one request at a time, the tool dispatcher handle_call_tool,   *)
(* the nine tool handlers, list_resources, and the S3 service and local    *)
(* file system the handlers act on.                                        *)
(*                                                                         *)
(* Python values are tagged so that None, strings and integers stay        *)
(* distinct: StrV("x"), IntV(5), None.  A dict is a function from its keys *)
(* to tagged values.  A raised exception is named by its class.            *)
(***************************************************************************)
EXTENDS Integers, Sequences, FiniteSets, TLC

VARIABLES
    env,        \* os.environ restricted to the four variables load_config reads
    pc,         \* position of main(): "start", "initialised", "serving", "failed"
    startupExc, \* exception main() died with ("" while alive)
    client,     \* module global `client` (None until init_client assigns it)
    request,    \* request the transport loop has read and not yet answered
    response,   \* what the handler of `request` returned or raised
    calls,      \* storage-client calls made while handling `request`
    buckets,    \* S3 service: set of existing bucket names
    objects,    \* S3 service: <<bucket, key>> -> object body
    files       \* local file system: path -> file content

vars == <<env, pc, startupExc, client, request, response, calls,
          buckets, objects, files>>

---------------------------------------------------------------------------
(* Bounds and input domains *)

MaxBuckets == 1

DefaultMaxKeys == 1000

BucketName(i) == "b" \o ToString(i)

BucketNames == {BucketName(i) : i \in 1..MaxBuckets}
\* object keys, in the order the service lists them
KeySeq == <<"k1">>
ObjectKeys == {KeySeq[i] : i \in 1..Len(KeySeq)}

\* local paths a caller may pass: two input files, an output file in an
\* existing directory, and a path inside a directory that does not exist
InPath1 == "/tmp/in"
InPath2 == "/tmp/in2"
OutPath == "/tmp/out"
BadPath == "/nodir/out"
Paths == {InPath1, InPath2, OutPath, BadPath}
WritablePaths == {InPath1, InPath2, OutPath}

---------------------------------------------------------------------------
(* Python values *)

None == [none |-> TRUE]
StrV(s) == [str |-> s]
IntV(i) == [int |-> i]

IsStr(v) == DOMAIN v = {"str"}

\* str(v) as an f-string renders it
Format(v) ==
    IF v = None THEN "None"
    ELSE IF IsStr(v) THEN v.str
    ELSE ToString(v.int)

\* bool(v): None and "" are falsy
Truthy(v) == v # None /\ v # StrV("")

EmptyDict == [k \in {} |-> None]

\* dict.get(key) and dict.get(key, default)
Get(d, key) == IF key \in DOMAIN d THEN d[key] ELSE None
GetDefault(d, key, default) == IF key \in DOMAIN d THEN d[key] ELSE default

\* d[key] = value
Put(d, key, value) ==
    [k \in DOMAIN d \cup {key} |-> IF k = key THEN value ELSE d[k]]

\* os.getenv(name) and os.getenv(name, default): an unset variable is None
Getenv(name) == env[name]
GetenvDefault(name, default) == IF env[name] = None THEN default ELSE env[name]

---------------------------------------------------------------------------
(* Exceptions *)

\* failures a storage-client call can be made to end with: a service error
\* response (botocore ClientError), a transport failure (botocore
\* EndpointConnectionError, a BotoCoreError) and a RuntimeError
Faults == {"ClientError", "EndpointConnectionError", "RuntimeError"}

\* `except cls:` catches exc.  None of the classes raised here derives from
\* another one of them, so a clause catches exactly its own class.
Catches(cls, exc) == exc = cls

---------------------------------------------------------------------------
(* The S3 service behind the boto3 client, and the local file system *)

BucketSeq == [i \in 1..MaxBuckets |-> BucketName(i)]

InBuckets(b) == b \in buckets
\* buckets in the order the service lists them
ListedBuckets == SelectSeq(BucketSeq, InBuckets)

KeysIn(b) == {k \in ObjectKeys : <<b, k>> \in DOMAIN objects}

\* botocore validates the parameters before sending anything: a None value
\* is rejected with ParamValidationError
ParamsValid(kwargs) == \A k \in DOMAIN kwargs : kwargs[k] # None

\* objects are unversioned: the only version id an object has is "null"
VersionOk(kwargs) ==
    "VersionId" \notin DOMAIN kwargs \/ kwargs["VersionId"] = StrV("null")

\* the service answers the call with an error response
ServiceRejects(op, kwargs) ==
    LET b == IF "Bucket" \in DOMAIN kwargs THEN kwargs["Bucket"].str ELSE ""
        k == IF "Key" \in DOMAIN kwargs THEN kwargs["Key"].str ELSE ""
    IN CASE op = "list_buckets" -> FALSE
         [] op = "head_bucket" -> b \notin buckets
         [] op = "create_bucket" -> b \in buckets
         [] op = "delete_bucket" -> b \notin buckets \/ KeysIn(b) # {}
         [] op = "list_objects_v2" -> b \notin buckets
         [] op = "get_object" -> <<b, k>> \notin DOMAIN objects \/ ~VersionOk(kwargs)
         [] op = "head_object" -> <<b, k>> \notin DOMAIN objects \/ ~VersionOk(kwargs)
         [] op = "put_object" -> b \notin buckets
         [] op = "delete_object" -> b \notin buckets \/ ~VersionOk(kwargs)

\* the exception the call ends with ("" when it returns)
CallExc(op, kwargs, e) ==
    IF ~ParamsValid(kwargs) THEN "ParamValidationError"
    ELSE IF e.fault # "" THEN e.fault
    ELSE IF ServiceRejects(op, kwargs) THEN "ClientError"
    ELSE ""

BucketsAfter(op, kwargs) ==
    CASE op = "create_bucket" -> buckets \cup {kwargs["Bucket"].str}
      [] op = "delete_bucket" -> buckets \ {kwargs["Bucket"].str}
      [] OTHER -> buckets

ObjectsAfter(op, kwargs) ==
    LET bk == <<kwargs["Bucket"].str, kwargs["Key"].str>>
    IN CASE op = "put_object" ->
              [x \in DOMAIN objects \cup {bk} |->
                   IF x = bk THEN kwargs["Body"].str ELSE objects[x]]
         [] op = "delete_object" ->
              [x \in DOMAIN objects \ {bk} |-> objects[x]]
         [] OTHER -> objects

\* the page of keys list_objects_v2 returns: every key of the bucket when the
\* call only names the bucket and MaxKeys admits them all, otherwise the part
\* of them the service selects (e.page), cut to MaxKeys
PageKeys(kwargs, e) ==
    LET all == KeysIn(kwargs["Bucket"].str)
        unfiltered == DOMAIN kwargs \subseteq {"Bucket", "MaxKeys"}
        chosen == IF unfiltered THEN all ELSE all \cap e.page
        inPage(k) == k \in chosen
        seq == SelectSeq(KeySeq, inPage)
        n == IF "MaxKeys" \in DOMAIN kwargs THEN kwargs["MaxKeys"].int ELSE DefaultMaxKeys
    IN IF Len(seq) > n THEN SubSeq(seq, 1, n) ELSE seq

\* what the call returns when it does not raise
CallResponse(op, kwargs, e) ==
    LET bk == <<kwargs["Bucket"].str, kwargs["Key"].str>>
    IN CASE op = "list_buckets" -> [Buckets |-> ListedBuckets]
         [] op = "list_objects_v2" -> [Contents |-> PageKeys(kwargs, e)]
         [] op = "get_object" -> [Body |-> objects[bk]]
         [] op = "head_object" ->
              [ContentType |-> "binary/octet-stream",
               ContentLength |-> Len(objects[bk]),
               LastModified |-> "2024-01-01 00:00:00+00:00"]
         [] OTHER -> [ok |-> TRUE]

\* one call client.<op>(**kwargs): the exception it ends with, its response,
\* and the service state it leaves
ClientCall(op, kwargs, e) ==
    LET exc == CallExc(op, kwargs, e)
    IN [exc |-> exc,
        injected |-> ParamsValid(kwargs) /\ e.fault # "",
        resp |-> IF exc = "" THEN CallResponse(op, kwargs, e) ELSE [ok |-> FALSE],
        buckets |-> IF exc = "" THEN BucketsAfter(op, kwargs) ELSE buckets,
        objects |-> IF exc = "" THEN ObjectsAfter(op, kwargs) ELSE objects]

\* open(path, 'rb') / open(path, 'wb'): the exception it ends with
OpenReadExc(path) ==
    IF path = None THEN "TypeError"
    ELSE IF path.str \notin DOMAIN files THEN "FileNotFoundError"
    ELSE ""

OpenWriteExc(path) ==
    IF path = None THEN "TypeError"
    ELSE IF path.str \notin WritablePaths THEN "FileNotFoundError"
    ELSE ""

\* the file opened in append mode ('ab') instead of 'wb'
WriteFile_Append(path, body) ==
    [p \in DOMAIN files \cup {path} |->
        IF p = path
        THEN (IF path \in DOMAIN files THEN files[path] ELSE "") \o body
        ELSE files[p]]

\* with open(path, 'wb') as f: f.write(body)
WriteFile(path, body) ==
    [p \in DOMAIN files \cup {path} |-> IF p = path THEN body ELSE files[p]]

---------------------------------------------------------------------------
(* Tool handlers.  Each takes the request's argument mapping and the        *)
(* environment's choices for this call (e.fault: the failure injected into  *)
(* the storage call, e.page: the keys a filtered listing selects) and       *)
(* yields the handler's outcome: what it returned or raised, the storage    *)
(* calls it made, and the service and file-system state it leaves.          *)

\* the record of one storage-client call with outcome r: the primitive, its
\* keyword arguments, the exception it ended with ("" when it returned), and
\* whether that exception was a failure injected by the environment
Call(op, kwargs, r) ==
    [op |-> op, kwargs |-> kwargs, exc |-> r.exc, injected |-> r.injected]

\* the handler returns the text blocks `texts`
Return(texts, cs, B, O, F) ==
    [outcome |-> "return", value |-> texts, exc |-> "", calls |-> cs,
     buckets |-> B, objects |-> O, files |-> F]

\* the handler lets exception `exc` escape
Raise(exc, cs, B, O, F) ==
    [outcome |-> "raise", value |-> <<>>, exc |-> exc, calls |-> cs,
     buckets |-> B, objects |-> O, files |-> F]

\* try: <one storage call>; return success  except cls: return failure
AfterCall(r, cs, cls, success, failure) ==
    IF r.exc = "" THEN Return(success, cs, r.buckets, r.objects, files)
    ELSE IF Catches(cls, r.exc) THEN Return(failure, cs, r.buckets, r.objects, files)
    ELSE Raise(r.exc, cs, r.buckets, r.objects, files)

\* args.get(...) on args = None
NoArgs == Raise("AttributeError", <<>>, buckets, objects, files)

ListBucketsHandler(args, e) ==
    LET kwargs == EmptyDict
        r == ClientCall("list_buckets", kwargs, e)
        names == IF r.exc = "" THEN r.resp.Buckets ELSE <<>>
    IN AfterCall(r, <<Call("list_buckets", kwargs, r)>>, "RuntimeError",
                 [i \in 1..Len(names) |-> "Bucket: " \o names[i]],
                 <<"Failed to list buckets">>)

\* ExistsBucketHandler with `except RuntimeError`, as its bucket siblings have
ExistsBucketHandler_ExceptRuntimeError(args, e) ==
    IF args = None THEN NoArgs
    ELSE
    LET bucket_name == Get(args, "bucket_name")
        kwargs == Put(EmptyDict, "Bucket", bucket_name)
        r == ClientCall("head_bucket", kwargs, e)
    IN AfterCall(r, <<Call("head_bucket", kwargs, r)>>, "RuntimeError",
                 <<"Bucket " \o Format(bucket_name) \o " exists">>,
                 <<"Bucket " \o Format(bucket_name) \o " not exists">>)

ExistsBucketHandler(args, e) ==
    IF args = None THEN NoArgs
    ELSE
    LET bucket_name == Get(args, "bucket_name")
        kwargs == Put(EmptyDict, "Bucket", bucket_name)
        r == ClientCall("head_bucket", kwargs, e)
    IN AfterCall(r, <<Call("head_bucket", kwargs, r)>>, "ClientError",
                 <<"Bucket " \o Format(bucket_name) \o " exists">>,
                 <<"Bucket " \o Format(bucket_name) \o " not exists">>)

CreateBucketHandler(args, e) ==
    IF args = None THEN NoArgs
    ELSE
    LET bucket_name == Get(args, "bucket_name")
        kwargs == Put(EmptyDict, "Bucket", bucket_name)
        r == ClientCall("create_bucket", kwargs, e)
    IN AfterCall(r, <<Call("create_bucket", kwargs, r)>>, "RuntimeError",
                 <<"Bucket " \o Format(bucket_name) \o " created successfully">>,
                 <<"Failed to create bucket">>)

DeleteBucketHandler(args, e) ==
    IF args = None THEN NoArgs
    ELSE
    LET bucket_name == Get(args, "bucket_name")
        kwargs == Put(EmptyDict, "Bucket", bucket_name)
        r == ClientCall("delete_bucket", kwargs, e)
    IN AfterCall(r, <<Call("delete_bucket", kwargs, r)>>, "RuntimeError",
                 <<"Bucket " \o Format(bucket_name) \o " deleted successfully">>,
                 <<"Failed to delete bucket">>)

\* kwargs[param] = value without the `is not None` test
PutIfNotNone_Always(kwargs, param, value) == Put(kwargs, param, value)

\* kwargs[param] = value, if value is not None
PutIfNotNone(kwargs, param, value) ==
    IF value # None THEN Put(kwargs, param, value) ELSE kwargs

\* the keyword arguments ListObjectsHandler builds
ListObjectsKwargs(args) ==
    LET bucket_name == Get(args, "bucket_name")
        prefix == Get(args, "prefix")
        delimiter == Get(args, "delimiter")
        max_keys == GetDefault(args, "max_keys", IntV(DefaultMaxKeys))
        continuation_token == Get(args, "continuation_token")
        start_after == Get(args, "start_after")
        k0 == Put(EmptyDict, "Bucket", bucket_name)
        k1 == PutIfNotNone(k0, "Prefix", prefix)
        k2 == PutIfNotNone(k1, "Delimiter", delimiter)
        k3 == PutIfNotNone(k2, "MaxKeys", max_keys)
        k4 == PutIfNotNone(k3, "ContinuationToken", continuation_token)
    IN PutIfNotNone(k4, "StartAfter", start_after)

ListObjectsHandler(args, e) ==
    IF args = None THEN NoArgs
    ELSE
    LET kwargs == ListObjectsKwargs(args)
        r == ClientCall("list_objects_v2", kwargs, e)
        cs == <<Call("list_objects_v2", kwargs, r)>>
        keys == IF r.exc = "" THEN r.resp.Contents ELSE <<>>
    IN IF r.exc = "" /\ keys = <<>>
       THEN \* the response of an empty listing has no 'Contents' entry
            Raise("KeyError", cs, r.buckets, r.objects, files)
       ELSE AfterCall(r, cs, "ClientError",
                [i \in 1..Len(keys) |->
                    "Object[key=" \o keys[i] \o ", version_id=null]"],
                <<"Failed to list objects">>)

\* the keyword arguments of the three handlers that address one object
ObjectKwargs(args) ==
    LET bucket_name == Get(args, "bucket_name")
        key == Get(args, "key")
        version_id == Get(args, "version_id")
        k0 == Put(Put(EmptyDict, "Bucket", bucket_name), "Key", key)
    IN PutIfNotNone(k0, "VersionId", version_id)

GetObjectHandler(args, e) ==
    IF args = None THEN NoArgs
    ELSE
    LET key == Get(args, "key")
        path == Get(args, "path")
        kwargs == ObjectKwargs(args)
        r == ClientCall("get_object", kwargs, e)
        cs == <<Call("get_object", kwargs, r)>>
    IN IF r.exc # "" THEN AfterCall(r, cs, "ClientError", <<>>, <<"Failed to get object">>)
       ELSE IF OpenWriteExc(path) # ""
       THEN IF Catches("ClientError", OpenWriteExc(path))
            THEN Return(<<"Failed to get object">>, cs, r.buckets, r.objects, files)
            ELSE Raise(OpenWriteExc(path), cs, r.buckets, r.objects, files)
       ELSE Return(<<"Object " \o Format(key) \o " saved successfully">>, cs,
                   r.buckets, r.objects, WriteFile(path.str, r.resp.Body))

PutObjectHandler(args, e) ==
    IF args = None THEN NoArgs
    ELSE
    LET bucket_name == Get(args, "bucket_name")
        key == Get(args, "key")
        path == Get(args, "path")
        k0 == Put(Put(EmptyDict, "Bucket", bucket_name), "Key", key)
    IN IF OpenReadExc(path) # ""
       THEN IF Catches("ClientError", OpenReadExc(path))
            THEN Return(<<"Failed to put object">>, <<>>, buckets, objects, files)
            ELSE Raise(OpenReadExc(path), <<>>, buckets, objects, files)
       ELSE LET kwargs == Put(k0, "Body", StrV(files[path.str]))
                r == ClientCall("put_object", kwargs, e)
            IN AfterCall(r, <<Call("put_object", kwargs, r)>>, "ClientError",
                         <<"Object " \o Format(key) \o " saved successfully">>,
                         <<"Failed to put object">>)

DeleteObjectHandler(args, e) ==
    IF args = None THEN NoArgs
    ELSE
    LET key == Get(args, "key")
        kwargs == ObjectKwargs(args)
        r == ClientCall("delete_object", kwargs, e)
    IN AfterCall(r, <<Call("delete_object", kwargs, r)>>, "ClientError",
                 <<"Object " \o Format(key) \o " deleted successfully">>,
                 <<"Failed to delete object">>)

GetObjectMetadataHandler(args, e) ==
    IF args = None THEN NoArgs
    ELSE
    LET kwargs == ObjectKwargs(args)
        r == ClientCall("head_object", kwargs, e)
        obj == r.resp
    IN AfterCall(r, <<Call("head_object", kwargs, r)>>, "ClientError",
                 IF r.exc # "" THEN <<>> ELSE
                 <<"Metadata[content_type=" \o obj.ContentType \o ", "
                   \o "content_length=" \o ToString(obj.ContentLength) \o ","
                   \o "last_modified=" \o obj.LastModified \o "]">>,
                 <<"Failed to get object metadata">>)

---------------------------------------------------------------------------
(* The tool catalog and the dispatcher *)

\* the names handle_list_tools declares, in its order
ToolNames ==
    <<"list-buckets", "exists-bucket", "create-bucket", "delete-bucket",
      "list-objects", "get-object", "put-object", "delete-object",
      "get-object-metadata">>

\* inputSchema.properties of each declared tool
Properties(name) ==
    CASE name = "list-objects" ->
            {"bucket_name", "prefix", "delimiter", "max_keys",
             "continuation_token", "start_after"}
      [] name = "get-object" -> {"bucket_name", "key", "version_id", "path"}
      [] name = "put-object" -> {"bucket_name", "key", "path"}
      [] name \in {"delete-object", "get-object-metadata"} ->
            {"bucket_name", "key", "version_id"}
      [] name \in {"exists-bucket", "create-bucket", "delete-bucket"} ->
            {"bucket_name"}
      [] OTHER -> {}

\* inputSchema.required of each declared tool
Required(name) ==
    CASE name \in {"get-object", "put-object"} -> {"bucket_name", "key", "path"}
      [] name \in {"delete-object", "get-object-metadata"} -> {"bucket_name", "key"}
      [] name \in {"exists-bucket", "create-bucket", "delete-bucket",
                   "list-objects"} -> {"bucket_name"}
      [] OTHER -> {}

\* tool_handlers with the create-bucket entry bound to the delete handler
tool_handlers_Swapped ==
    [n \in {ToolNames[i] : i \in 1..Len(ToolNames)} |->
        CASE n = "list-buckets" -> "ListBucketsHandler"
          [] n = "create-bucket" -> "DeleteBucketHandler"
          [] n = "delete-bucket" -> "DeleteBucketHandler"
          [] n = "exists-bucket" -> "ExistsBucketHandler"
          [] n = "list-objects" -> "ListObjectsHandler"
          [] n = "get-object" -> "GetObjectHandler"
          [] n = "put-object" -> "PutObjectHandler"
          [] n = "delete-object" -> "DeleteObjectHandler"
          [] n = "get-object-metadata" -> "GetObjectMetadataHandler"]

\* the dict tool_handlers: tool name -> handler class
tool_handlers ==
    [n \in {ToolNames[i] : i \in 1..Len(ToolNames)} |->
        CASE n = "list-buckets" -> "ListBucketsHandler"
          [] n = "create-bucket" -> "CreateBucketHandler"
          [] n = "delete-bucket" -> "DeleteBucketHandler"
          [] n = "exists-bucket" -> "ExistsBucketHandler"
          [] n = "list-objects" -> "ListObjectsHandler"
          [] n = "get-object" -> "GetObjectHandler"
          [] n = "put-object" -> "PutObjectHandler"
          [] n = "delete-object" -> "DeleteObjectHandler"
          [] n = "get-object-metadata" -> "GetObjectMetadataHandler"]

\* tool_handlers[name].handle(name, args)
Handle(cls, args, e) ==
    CASE cls = "ListBucketsHandler" -> ListBucketsHandler(args, e)
      [] cls = "ExistsBucketHandler" -> ExistsBucketHandler(args, e)
      [] cls = "CreateBucketHandler" -> CreateBucketHandler(args, e)
      [] cls = "DeleteBucketHandler" -> DeleteBucketHandler(args, e)
      [] cls = "ListObjectsHandler" -> ListObjectsHandler(args, e)
      [] cls = "GetObjectHandler" -> GetObjectHandler(args, e)
      [] cls = "PutObjectHandler" -> PutObjectHandler(args, e)
      [] cls = "DeleteObjectHandler" -> DeleteObjectHandler(args, e)
      [] cls = "GetObjectMetadataHandler" -> GetObjectMetadataHandler(args, e)

\* `name in tool_handlers`
IsRegistered(name) == name \in DOMAIN tool_handlers

\* handle_call_tool falling back to a default handler for an unknown name
CallTool_DefaultHandler(name, args, e) ==
    IF IsRegistered(name)
    THEN Handle(tool_handlers[name], args, e)
    ELSE ListBucketsHandler(args, e)

\* handle_call_tool(name, args)
CallTool(name, args, e) ==
    IF IsRegistered(name)
    THEN Handle(tool_handlers[name], args, e)
    ELSE Raise("ValueError", <<>>, buckets, objects, files)

\* Resource(uri=..., name=..., mimeType=..., description=...) of one bucket
BucketResource(b) ==
    [uri |-> "s3://" \o b, name |-> "Bucket: " \o b,
     mimeType |-> "text/plain", description |-> "Data in bucket: " \o b]

\* list_resources()
ListResources(e) ==
    LET kwargs == EmptyDict
        r == ClientCall("list_buckets", kwargs, e)
        names == IF r.exc = "" THEN r.resp.Buckets ELSE <<>>
    IN AfterCall(r, <<Call("list_buckets", kwargs, r)>>, "RuntimeError",
                 [i \in 1..Len(names) |-> BucketResource(names[i])],
                 <<>>)

---------------------------------------------------------------------------
(* Startup *)

EnvNames == {"ENDPOINT", "ACCESS_KEY_ID", "ACCESS_KEY_SECRET", "REGION_NAME"}

\* load_config(): the config dict it builds
Config ==
    [endpoint |-> Getenv("ENDPOINT"),
     access_key_id |-> Getenv("ACCESS_KEY_ID"),
     access_key_secret |-> Getenv("ACCESS_KEY_SECRET"),
     region_name |-> GetenvDefault("REGION_NAME", StrV("us-east-1"))]

\* the completeness test without the secret
ConfigComplete_NoSecret ==
    Truthy(Config.endpoint) /\ Truthy(Config.access_key_id)

\* load_config(): all([endpoint, access_key_id, access_key-secret])
ConfigComplete ==
    Truthy(Config.endpoint) /\ Truthy(Config.access_key_id)
        /\ Truthy(Config.access_key_secret)

\* boto3.client('s3', endpoint_url=..., ...) built from the config
NewClient ==
    [endpoint_url |-> Config.endpoint,
     aws_access_key_id |-> Config.access_key_id,
     aws_secret_access_key |-> Config.access_key_secret,
     region_name |-> Config.region_name]

---------------------------------------------------------------------------
(* Requests the transport loop can read *)

\* values a caller may give each argument (None: a JSON null)
ArgValues(prop) ==
    CASE prop = "bucket_name" -> {StrV(b) : b \in BucketNames}
      [] prop = "key" -> {StrV(k) : k \in ObjectKeys}
      [] prop = "path" -> {StrV(p) : p \in Paths}
      [] prop = "version_id" -> {StrV("null"), None}
      [] prop = "prefix" -> {StrV("k"), None}
      [] prop = "delimiter" -> {StrV("/")}
      [] prop = "max_keys" -> {IntV(5), None}
      [] prop = "continuation_token" -> {StrV("token")}
      [] prop = "start_after" -> {StrV("a")}

\* every dict whose keys are among `props`
RECURSIVE DictsOver(_)
DictsOver(props) ==
    IF props = {} THEN {EmptyDict}
    ELSE LET k == CHOOSE x \in props : TRUE
             rest == DictsOver(props \ {k})
         IN rest \cup {Put(d, k, v) : d \in rest, v \in ArgValues(k)}

\* names no tool is registered under
UnknownNames == {"copy-object", "List-Buckets"}

CallToolRequests ==
    {[kind |-> "call_tool", name |-> n, args |-> a] :
        n \in DOMAIN tool_handlers, a \in {None}} \cup
    UNION {{[kind |-> "call_tool", name |-> n, args |-> a] :
                a \in DictsOver(Properties(n))} : n \in DOMAIN tool_handlers}
    \cup {[kind |-> "call_tool", name |-> n, args |-> a] :
            n \in UnknownNames, a \in {None} \cup DictsOver({"bucket_name", "key"})}

Requests ==
    CallToolRequests \cup
    {[kind |-> k, name |-> "", args |-> None] : k \in {"list_resources", "list_tools"}}

\* what the environment decides for one handled request
EnvChoices == [fault : {""} \cup Faults, page : SUBSET ObjectKeys]

NoRequest == [kind |-> "none", name |-> "", args |-> None]
NoResponse == [outcome |-> "none", value |-> <<>>, exc |-> ""]

---------------------------------------------------------------------------
(* Actions *)

\* a variable is unset, set to the empty string, or set to a value
EnvValues == {None, StrV(""), StrV("set")}

Init ==
    /\ env \in [EnvNames -> EnvValues]
    /\ pc = "start"
    /\ startupExc = ""
    /\ client = None
    /\ request = NoRequest
    /\ response = NoResponse
    /\ calls = <<>>
    /\ buckets = {}
    /\ objects = [x \in {} |-> ""]
    /\ files = [p \in {InPath1, InPath2} |-> IF p = InPath1 THEN "XYZ" ELSE "AB"]

\* main(): await init_client()
init_client ==
    /\ pc = "start"
    /\ IF ConfigComplete
       THEN /\ client' = NewClient
            /\ pc' = "initialised"
            /\ startupExc' = ""
       ELSE /\ client' = client
            /\ pc' = "failed"
            /\ startupExc' = "ValueError"
    /\ UNCHANGED <<env, request, response, calls, buckets, objects, files>>

\* main(): the stdio transport is opened and server.run starts serving
server_run ==
    /\ pc = "initialised"
    /\ pc' = "serving"
    /\ UNCHANGED <<env, startupExc, client, request, response, calls,
                   buckets, objects, files>>

\* server.run reads the next request from the read stream
Receive ==
    /\ pc = "serving"
    /\ request = NoRequest
    /\ \E req \in Requests : request' = req
    /\ response' = NoResponse
    /\ calls' = <<>>
    /\ UNCHANGED <<env, pc, startupExc, client, buckets, objects, files>>

\* the state a handler outcome h leaves
Outcome(h) ==
    /\ response' = [outcome |-> h.outcome, value |-> h.value, exc |-> h.exc]
    /\ calls' = h.calls
    /\ buckets' = h.buckets
    /\ objects' = h.objects
    /\ files' = h.files

handle_call_tool ==
    /\ request.kind = "call_tool"
    /\ response = NoResponse
    /\ \E e \in EnvChoices : Outcome(CallTool(request.name, request.args, e))
    /\ UNCHANGED <<env, pc, startupExc, client, request>>

list_resources ==
    /\ request.kind = "list_resources"
    /\ response = NoResponse
    /\ \E e \in EnvChoices : Outcome(ListResources(e))
    /\ UNCHANGED <<env, pc, startupExc, client, request>>

handle_list_tools ==
    /\ request.kind = "list_tools"
    /\ response = NoResponse
    /\ response' = [outcome |-> "return", value |-> ToolNames, exc |-> ""]
    /\ UNCHANGED <<env, pc, startupExc, client, request, calls,
                   buckets, objects, files>>

\* server.run writes the result (or the error) to the write stream
Respond ==
    /\ response # NoResponse
    /\ request' = NoRequest
    /\ response' = NoResponse
    /\ calls' = <<>>
    /\ UNCHANGED <<env, pc, startupExc, client, buckets, objects, files>>

Next ==
    \/ init_client
    \/ server_run
    \/ Receive
    \/ handle_call_tool
    \/ list_resources
    \/ handle_list_tools
    \/ Respond

Spec == Init /\ [][Next]_vars

---------------------------------------------------------------------------
(* Properties.  They are stated over the state in which a request has been  *)
(* handled and not yet answered: `request` is the invocation, `response`    *)
(* what its handler returned or raised, `calls` the storage calls it made.  *)

DeclaredTools == {ToolNames[i] : i \in 1..Len(ToolNames)}

\* a tool invocation has been handled
ToolHandled == request.kind = "call_tool" /\ response.outcome # "none"

\* ... of a registered tool, with an argument mapping
DictHandled ==
    ToolHandled /\ request.name \in DeclaredTools /\ request.args # None

\* the bucket name an invocation carries, as text
ArgBucket == Format(Get(request.args, "bucket_name"))

\* the fixed failure text of each tool
FailureText(name) ==
    CASE name = "list-buckets" -> "Failed to list buckets"
      [] name = "exists-bucket" -> "Bucket " \o ArgBucket \o " not exists"
      [] name = "create-bucket" -> "Failed to create bucket"
      [] name = "delete-bucket" -> "Failed to delete bucket"
      [] name = "list-objects" -> "Failed to list objects"
      [] name = "get-object" -> "Failed to get object"
      [] name = "put-object" -> "Failed to put object"
      [] name = "delete-object" -> "Failed to delete object"
      [] name = "get-object-metadata" -> "Failed to get object metadata"

\* the storage primitive that corresponds to each tool
Primitive(name) ==
    CASE name = "list-buckets" -> "list_buckets"
      [] name = "exists-bucket" -> "head_bucket"
      [] name = "create-bucket" -> "create_bucket"
      [] name = "delete-bucket" -> "delete_bucket"
      [] name = "list-objects" -> "list_objects_v2"
      [] name = "get-object" -> "get_object"
      [] name = "put-object" -> "put_object"
      [] name = "delete-object" -> "delete_object"
      [] name = "get-object-metadata" -> "head_object"

\* the storage-call parameter each optional argument maps to
OptionalParam(opt) ==
    CASE opt = "prefix" -> "Prefix"
      [] opt = "delimiter" -> "Delimiter"
      [] opt = "max_keys" -> "MaxKeys"
      [] opt = "continuation_token" -> "ContinuationToken"
      [] opt = "start_after" -> "StartAfter"
      [] opt = "version_id" -> "VersionId"

Optional(name) == Properties(name) \ Required(name)

\* C1: whenever the single storage call of a tool's handler fails, the
\* invocation returns normally with exactly one text block holding that
\* tool's fixed failure text; no storage failure reaches the caller as an
\* exception.  (Only calls whose parameters are all given are considered, so
\* that the failure is one of the storage layer and not of a missing argument.)
C1_StorageFailureBecomesText ==
    (ToolHandled /\ request.name \in DeclaredTools
        /\ Len(calls) = 1 /\ ParamsValid(calls[1].kwargs) /\ calls[1].exc # "")
    => (response.outcome = "return"
        /\ response.value = <<FailureText(request.name)>>)

\* C2: an invocation under a name that is not one of the nine registered
\* tool names fails with the unknown-tool error and makes no storage call,
\* whatever its arguments and whatever the state of the service.
C2_UnknownToolRejected ==
    (ToolHandled /\ request.name \notin DeclaredTools)
    => (response.outcome = "raise" /\ response.exc = "ValueError"
        /\ calls = <<>>)

C2_Witness ==
    /\ ToolHandled
    /\ request.name \notin DeclaredTools
    /\ request.args # None /\ DOMAIN request.args # {}
    /\ buckets # {}
    /\ response.outcome = "raise"

\* C4: an invocation of a registered tool that omits an argument its
\* descriptor declares required, or carries no argument mapping at all,
\* never results in a storage call.  (A tool that declares no required
\* argument has none to omit.)
C4_RequiredArgumentsChecked ==
    (ToolHandled /\ request.name \in DeclaredTools
        /\ Required(request.name) # {}
        /\ (request.args = None
            \/ ~(Required(request.name) \subseteq DOMAIN request.args)))
    => calls = <<>>

\* the resources of a successful listing: one per bucket, uri s3://{name}
C6_UrisOk ==
    /\ Len(response.value) = Cardinality(buckets)
    /\ \A b \in buckets :
          \E i \in 1..Len(response.value) : response.value[i].uri = "s3://" \o b

\* C6: list_resources returns an empty list, and does not raise, whenever
\* the bucket listing fails; when the listing succeeds it returns exactly
\* one resource per bucket, with uri s3://{bucket_name}.
C6_ListResourcesSwallowsFailure ==
    (request.kind = "list_resources" /\ response.outcome # "none")
    => /\ response.outcome = "return"
       /\ calls[1].exc # "" => response.value = <<>>
       /\ calls[1].exc = "" => C6_UrisOk

\* the local file an invocation names cannot be used: put-object cannot open
\* it for reading, or get-object, having fetched the object, cannot open it
\* for writing
LocalFileFailure ==
    /\ DictHandled
    /\ Required(request.name) \subseteq DOMAIN request.args
    /\ "path" \in DOMAIN request.args
    /\ \/ request.name = "put-object"
          /\ request.args["path"].str \notin DOMAIN files
       \/ request.name = "get-object"
          /\ Len(calls) = 1 /\ calls[1].exc = ""
          /\ request.args["path"].str \notin WritablePaths

\* C10: a local-file failure in get-object or put-object is handled like a
\* storage failure: the invocation returns the single fixed failure text
\* block and does not raise.
C10_LocalFileFailureBecomesText ==
    LocalFileFailure
    => (response.outcome = "return"
        /\ response.value = <<FailureText(request.name)>>)


\* an optional argument the invocation gives with a value / leaves out
Given(opt) == opt \in DOMAIN request.args
GivenValue(opt) == Given(opt) /\ request.args[opt] # None

\* C3 as stated: for every optional argument of every tool, if the argument
\* is absent from the invocation the corresponding parameter does not appear
\* in the storage call, and if present it appears with the given value.
C3_OptionalsPassedOnlyWhenPresent ==
    (DictHandled /\ Len(calls) = 1
        /\ Required(request.name) \subseteq DOMAIN request.args)
    => \A opt \in Optional(request.name) :
          LET kwargs == calls[1].kwargs
              param == OptionalParam(opt)
          IN /\ ~Given(opt) => param \notin DOMAIN kwargs
             /\ Given(opt) => /\ param \in DOMAIN kwargs
                              /\ kwargs[param] = request.args[opt]

\* C3 amended: an optional argument given with a non-null value appears in
\* the storage call with that value; one that is absent or null does not
\* appear, except max_keys, which when absent is sent as MaxKeys = 1000
\* (and when null is not sent).
C3_OptionalsPassedWithDefaultMaxKeys ==
    (DictHandled /\ Len(calls) = 1)
    => \A opt \in Optional(request.name) :
          LET kwargs == calls[1].kwargs
              param == OptionalParam(opt)
          IN /\ GivenValue(opt) => /\ param \in DOMAIN kwargs
                                   /\ kwargs[param] = request.args[opt]
             /\ (Given(opt) /\ ~GivenValue(opt)) => param \notin DOMAIN kwargs
             /\ (~Given(opt) /\ opt # "max_keys") => param \notin DOMAIN kwargs
             /\ (~Given(opt) /\ opt = "max_keys") =>
                    /\ param \in DOMAIN kwargs
                    /\ kwargs[param] = IntV(1000)

C3_Witness ==
    /\ DictHandled /\ Len(calls) = 1
    /\ request.name = "list-objects"
    /\ GivenValue("prefix") /\ ~Given("max_keys") /\ ~Given("start_after")
    /\ Given("delimiter")
    /\ calls[1].kwargs["MaxKeys"] = IntV(1000)
    /\ "StartAfter" \notin DOMAIN calls[1].kwargs

\* all required arguments of a registered tool are present
RequiredPresent ==
    /\ ToolHandled /\ request.name \in DeclaredTools
    /\ \/ Required(request.name) = {}
       \/ /\ request.args # None
          /\ Required(request.name) \subseteq DOMAIN request.args

\* C5 as stated: an invocation of a registered tool with all required
\* arguments present makes exactly one storage call, and it is the primitive
\* that corresponds to the tool, on success and on storage failure alike.
C5_ExactlyOneStorageCall ==
    RequiredPresent
    => (Len(calls) = 1 /\ calls[1].op = Primitive(request.name))

\* put-object names a local file that cannot be opened for reading
PutFileUnreadable ==
    /\ request.name = "put-object"
    /\ request.args["path"].str \notin DOMAIN files

\* C5 amended: ... makes exactly one storage call, the tool's primitive,
\* except that put-object makes no storage call when the local file at
\* path cannot be opened for reading.
C5_ExactlyOneStorageCallUnlessUnreadable ==
    RequiredPresent
    => IF PutFileUnreadable
       THEN calls = <<>>
       ELSE Len(calls) = 1 /\ calls[1].op = Primitive(request.name)

C5_Witness ==
    /\ RequiredPresent
    /\ request.name = "put-object"
    /\ ~PutFileUnreadable
    /\ Len(calls) = 1 /\ calls[1].op = "put_object" /\ calls[1].exc = "ClientError"
    /\ response.value = <<"Failed to put object">>


\* this step handles a tool invocation that carries an argument mapping
HandlesTool(name) ==
    /\ request.kind = "call_tool" /\ request.name = name
    /\ request.args # None
    /\ response.outcome = "none" /\ response'.outcome # "none"

\* ... in which the environment injects no failure into the storage call
Reliable == Len(calls') = 1 /\ ~calls'[1].injected

\* this step handles tool `name` invoked for bucket n
HandlesBucket(name, n) ==
    HandlesTool(name) /\ Get(request.args, "bucket_name") = StrV(n)

C7_Step ==
    \A n \in BucketNames :
       /\ (HandlesBucket("create-bucket", n) /\ Reliable /\ n \notin buckets)
          => /\ response' = [outcome |-> "return", exc |-> "",
                  value |-> <<"Bucket " \o n \o " created successfully">>]
             /\ n \in buckets'
       /\ (HandlesBucket("exists-bucket", n) /\ Reliable /\ n \in buckets)
          => response' = [outcome |-> "return", exc |-> "",
                  value |-> <<"Bucket " \o n \o " exists">>]
       /\ (HandlesBucket("delete-bucket", n) /\ Reliable /\ n \in buckets
              /\ KeysIn(n) = {})
          => /\ response' = [outcome |-> "return", exc |-> "",
                  value |-> <<"Bucket " \o n \o " deleted successfully">>]
             /\ n \notin buckets'
       /\ (HandlesBucket("exists-bucket", n) /\ Reliable /\ n \notin buckets)
          => response' = [outcome |-> "return", exc |-> "",
                  value |-> <<"Bucket " \o n \o " not exists">>]
       /\ HandlesTool("exists-bucket") => buckets' = buckets
       \* between a create and the next delete the bucket stays; between a
       \* delete and the next create it stays away
       /\ (n \in buckets /\ n \notin buckets') => HandlesBucket("delete-bucket", n)
       /\ (n \notin buckets /\ n \in buckets') => HandlesBucket("create-bucket", n)

\* C7: against a storage holding a set of buckets, and with no failure
\* injected: create-bucket(n) of a bucket that does not exist returns
\* "Bucket n created successfully"; every exists-bucket(n) after that and
\* before a delete returns "Bucket n exists"; delete-bucket(n) (of the
\* bucket, which holds no objects) returns "Bucket n deleted successfully";
\* every exists-bucket(n) after the delete and before another create returns
\* "Bucket n not exists"; exists-bucket never changes the set of buckets.
C7_BucketLifecycle == [][C7_Step]_vars

C7_Witness ==
    /\ ToolHandled /\ request.name = "delete-bucket"
    /\ Len(calls) = 1 /\ ~calls[1].injected
    /\ response.value = <<"Bucket b1 deleted successfully">>
    /\ "b1" \notin buckets

\* this step handles tool `name` invoked for the object <<b, k>>
HandlesObject(name, b, k) ==
    /\ HandlesBucket(name, b) /\ Get(request.args, "key") = StrV(k)

\* ... and the invocation succeeds
Succeeds == response'.outcome = "return" /\ calls'[1].exc = ""

C8_Step ==
    \A b \in BucketNames, k \in ObjectKeys :
       LET bk == <<b, k>>
           path == request.args["path"].str
       IN \* a successful put-object stores the content of the local file
          /\ (HandlesObject("put-object", b, k) /\ Succeeds)
             => /\ bk \in DOMAIN objects' /\ objects'[bk] = files[path]
                /\ files' = files
          \* a successful get-object leaves the stored body in the local file
          /\ (HandlesObject("get-object", b, k) /\ Succeeds)
             => /\ path \in DOMAIN files' /\ files'[path] = objects[bk]
                /\ objects' = objects
          \* the stored body changes only by a put-object or a delete-object
          \* of that key
          /\ (bk \in DOMAIN objects
                /\ (bk \notin DOMAIN objects' \/ objects'[bk] # objects[bk]))
             => (HandlesObject("put-object", b, k)
                    \/ HandlesObject("delete-object", b, k))
          /\ (bk \notin DOMAIN objects /\ bk \in DOMAIN objects')
             => HandlesObject("put-object", b, k)

\* C8: a successful put-object(b, k, path_in) where the local file holds c
\* leaves the object body equal to c, however often it is repeated; the
\* body then changes only by a write to that key; and a successful
\* get-object(b, k, path_out) leaves path_out holding exactly the body.
C8_RoundTrip == [][C8_Step]_vars

C8_Witness ==
    /\ ToolHandled /\ request.name = "get-object"
    /\ response.value = <<"Object k1 saved successfully">>
    /\ request.args["path"] = StrV(OutPath)
    /\ files[OutPath] = "AB"
    /\ objects[<<"b1", "k1">>] = "AB"
    /\ files[InPath2] = "AB" /\ files[InPath1] = "XYZ"

\* ENDPOINT, ACCESS_KEY_ID and ACCESS_KEY_SECRET are all set and non-empty
AllSet ==
    \A v \in {"ENDPOINT", "ACCESS_KEY_ID", "ACCESS_KEY_SECRET"} :
        env[v] # None /\ env[v] # StrV("")

C9_Inv ==
    /\ ~AllSet => /\ pc \in {"start", "failed"}
                  /\ pc = "failed" => startupExc = "ValueError"
                  /\ client = None
                  /\ request = NoRequest /\ response = NoResponse
    /\ (request # NoRequest \/ response # NoResponse)
          => (pc = "serving" /\ client # None)
    /\ pc = "serving" => client # None

\* C9: if any of ENDPOINT, ACCESS_KEY_ID or ACCESS_KEY_SECRET is unset or
\* empty, main fails with the configuration error before the server loop
\* starts, no invocation is served and the client is never created; every
\* invocation served happens after the client was initialised; and the
\* client handle is never reassigned afterwards.
C9_StartupOrdering ==
    /\ []C9_Inv
    /\ [][(~AllSet /\ pc = "start") => pc' = "failed"]_vars
    /\ [][client # None => client' = client]_vars

C9_Witness ==
    /\ pc = "failed" /\ startupExc = "ValueError"
    /\ env["ENDPOINT"] # None /\ env["ENDPOINT"] # StrV("")
    /\ env["ACCESS_KEY_ID"] # None /\ env["ACCESS_KEY_ID"] # StrV("")
    /\ env["ACCESS_KEY_SECRET"] = StrV("")

====
